---- MODULE Spec2Model ----
(***************************************************************************)
(* OAuth helper of node-deezer (src/oauth.js): getLoginUrl, createSession  *)
(* with its response handler createSessionResponse, checkSession and       *)
(* destroySession.                                                         *)
(*                                                                         *)
(* JavaScript values are records [t |-> tag, v |-> payload].  A string is  *)
(* a sequence of symbols; a symbol is one character, except that a fixed   *)
(* literal such as access_token is written as one symbol.  An array is a   *)
(* sequence of strings.                                                    *)
(***************************************************************************)
EXTENDS Integers, Sequences, FiniteSets, TLC

(* ---------------------------------------------------------------- bounds *)

\* createSession calls that may be in flight at once
NumCalls == 2
\* key/value fields in a response body
MaxFields == 2
\* entries of a perms array
MaxPerms == 2

Calls == 1..NumCalls

(* ------------------------------------------------------ JavaScript values *)

Undefined == [t |-> "undefined", v |-> <<>>]
Null == [t |-> "null", v |-> <<>>]
NaN == [t |-> "nan", v |-> <<>>]
Str(s) == [t |-> "string", v |-> s]
Num(n) == [t |-> "int", v |-> n]
Arr(a) == [t |-> "array", v |-> a]
Fun(f) == [t |-> "function", v |-> f]

\* typeof x
TypeOf(x) ==
    CASE x.t = "undefined" -> "undefined"
      [] x.t \in {"null", "array", "object", "error"} -> "object"
      [] x.t \in {"int", "nan"} -> "number"
      [] x.t = "string" -> "string"
      [] x.t = "function" -> "function"

\* ToBoolean(x): what `if (x)` and `!x` test
Truthy(x) ==
    CASE x.t \in {"undefined", "null", "nan"} -> FALSE
      [] x.t = "string" -> Len(x.v) > 0
      [] x.t = "int" -> x.v # 0
      [] OTHER -> TRUE

Digits == <<"0", "1", "2", "3", "4", "5", "6", "7", "8", "9">>

IsDigit(c) == \E i \in 1..10 : Digits[i] = c

DigitVal(c) == (CHOOSE i \in 1..10 : Digits[i] = c) - 1

IsSpace(c) == c = " "

RECURSIVE TrimLeft(_)
TrimLeft(s) == IF s # <<>> /\ IsSpace(Head(s)) THEN TrimLeft(Tail(s)) ELSE s

RECURSIVE TrimRight(_)
TrimRight(s) ==
    IF s # <<>> /\ IsSpace(s[Len(s)]) THEN TrimRight(SubSeq(s, 1, Len(s) - 1)) ELSE s

AllDigits(s) == s # <<>> /\ \A i \in 1..Len(s) : IsDigit(s[i])

RECURSIVE DecVal(_)
DecVal(s) == IF s = <<>> THEN 0 ELSE 10 * DecVal(SubSeq(s, 1, Len(s) - 1)) + DigitVal(s[Len(s)])

\* ToNumber applied to a string: white space around the literal is ignored, the
\* empty literal is 0, a signed decimal literal is its value, anything else NaN
\* (fractions, exponents, hex and Infinity need symbols no modelled body has)
StringToNumber(s) ==
    LET lit == TrimRight(TrimLeft(s))
    IN  IF lit = <<>> THEN Num(0)
        ELSE IF AllDigits(lit) THEN Num(DecVal(lit))
        ELSE IF Head(lit) = "-" /\ AllDigits(Tail(lit)) THEN Num(0 - DecVal(Tail(lit)))
        ELSE NaN

RECURSIVE JoinWith(_, _)
JoinWith(a, sep) ==
    IF a = <<>> THEN <<>>
    ELSE IF Len(a) = 1 THEN a[1]
    ELSE a[1] \o <<sep>> \o JoinWith(Tail(a), sep)

\* unary plus
ToNumber(x) ==
    CASE x.t = "undefined" -> NaN
      [] x.t = "null" -> Num(0)
      [] x.t \in {"int", "nan"} -> x
      [] x.t = "string" -> StringToNumber(x.v)
      [] x.t = "array" -> StringToNumber(JoinWith(x.v, ","))
      [] OTHER -> NaN

(* ------------------------------------------------------------ querystring *)

RECURSIVE IndexFrom(_, _, _)
IndexFrom(s, c, i) ==
    IF i > Len(s) THEN 0 ELSE IF s[i] = c THEN i ELSE IndexFrom(s, c, i + 1)

\* s.indexOf(c), 1-based; 0 when c does not occur
IndexOf(s, c) == IndexFrom(s, c, 1)

RECURSIVE Split(_, _)
Split(s, sep) ==
    LET i == IndexOf(s, sep)
    IN  IF i = 0 THEN <<s>>
        ELSE <<SubSeq(s, 1, i - 1)>> \o Split(SubSeq(s, i + 1, Len(s)), sep)

\* querystring.unescape with '+' read as a space
QsUnescapeChar(c) ==
    CASE c = "+" -> " "
      [] c = "%20" -> " "
      [] c = "%2C" -> ","
      [] c = "%3A" -> ":"
      [] c = "%2F" -> "/"
      [] OTHER -> c

QsUnescape(s) == [i \in 1..Len(s) |-> QsUnescapeChar(s[i])]

\* querystring.escape
QsEscapeChar(c) ==
    CASE c = " " -> "%20"
      [] c = "," -> "%2C"
      [] c = ":" -> "%3A"
      [] c = "/" -> "%2F"
      [] OTHER -> c

QsEscape(s) == [i \in 1..Len(s) |-> QsEscapeChar(s[i])]

HasKey(obj, k) == \E i \in 1..Len(obj) : obj[i].k = k

\* obj[k]
Get(obj, k) ==
    IF HasKey(obj, k) THEN obj[CHOOSE i \in 1..Len(obj) : obj[i].k = k].v ELSE Undefined

\* one key=value pair added to the parsed object: a repeated key collects its
\* values in an array
AddPair(obj, k, val) ==
    IF ~HasKey(obj, k) THEN Append(obj, [k |-> k, v |-> Str(val)])
    ELSE [i \in 1..Len(obj) |->
            IF obj[i].k # k THEN obj[i]
            ELSE IF obj[i].v.t = "array"
                 THEN [k |-> k, v |-> Arr(Append(obj[i].v.v, val))]
                 ELSE [k |-> k, v |-> Arr(<<obj[i].v.v, val>>)]]

RECURSIVE ParsePairs(_, _)
ParsePairs(segs, obj) ==
    IF segs = <<>> THEN obj
    ELSE LET x == Head(segs)
             idx == IndexOf(x, "=")
             kstr == IF idx > 0 THEN SubSeq(x, 1, idx - 1) ELSE x
             vstr == IF idx > 0 THEN SubSeq(x, idx + 1, Len(x)) ELSE <<>>
         IN  IF x = <<>> THEN ParsePairs(Tail(segs), obj)
             ELSE ParsePairs(Tail(segs), AddPair(obj, QsUnescape(kstr), QsUnescape(vstr)))

\* querystring.parse(str)
QsParse(str) == ParsePairs(Split(str, "&"), <<>>)

RECURSIVE IntToStr(_)
IntToStr(n) ==
    IF n < 0 THEN <<"-">> \o IntToStr(0 - n)
    ELSE IF n < 10 THEN <<Digits[n + 1]>>
    ELSE IntToStr(n \div 10) \o <<Digits[(n % 10) + 1]>>

\* how querystring.stringify writes a primitive
StringifyPrimitive(x) ==
    CASE x.t = "string" -> x.v
      [] x.t = "int" -> IntToStr(x.v)
      [] OTHER -> <<>>

RECURSIVE StringifyPairs(_)
StringifyPairs(obj) ==
    IF obj = <<>> THEN <<>>
    ELSE LET kv == QsEscape(obj[1].k) \o <<"=">> \o QsEscape(StringifyPrimitive(obj[1].v))
         IN  IF Len(obj) = 1 THEN kv ELSE kv \o <<"&">> \o StringifyPairs(Tail(obj))

\* querystring.stringify(obj)
QsStringify(obj) == StringifyPairs(obj)

(* ------------------------------------------------------------------ errors *)

\* an Error object: what it is (code) and what it carries (info)
Error(code, info) == [t |-> "error", v |-> [code |-> code, info |-> info]]

\* Err.invalidArgument(name, value, acceptedTypes)
InvalidArgument(name, value, accepted) ==
    Error("InvalidArgument", [param |-> name, value |-> value, accepted |-> accepted])

\* Err.unknownResponseFromDeezer(r)
UnknownResponseFromDeezer(r) == Error("UnknownResponse", r)

\* Err.notYetSupported(operation)
NotYetSupported(operation) == Error("NotYetSupported", operation)

\* the names the module binds at its top (the require block)
ModuleBindings == {"request", "_", "querystring", "Err", "toCSV"}

\* evaluating the identifier `name` in a method body: an unbound identifier
\* throws ReferenceError before anything is called on it
Resolve(name) ==
    IF name \in ModuleBindings THEN Undefined ELSE Error("ReferenceError", name)

\* this.endpoints
Endpoints == [userAuth |-> "endpoints.userAuth", accessToken |-> "endpoints.accessToken"]

(* ------------------------------------------------------------ createSession *)

\* _.isFunction(x)
IsFunction(x) == TypeOf(x) = "function"

\* _.isArray(x)
IsArray(x) == x.t = "array"

\* the checks of createSession with the one on secret left out
ValidateSessionNoSecret(appId, secret, code, cb) ==
    IF TypeOf(appId) # "string" /\ TypeOf(appId) # "number"
    THEN InvalidArgument("appId", appId, <<"string", "number">>)
    ELSE IF TypeOf(code) # "string"
    THEN InvalidArgument("code", code, <<"string">>)
    ELSE IF ~IsFunction(cb)
    THEN InvalidArgument("cb", cb, <<"Function">>)
    ELSE Undefined

\* the checks at the top of createSession, in order; Undefined when all pass
ValidateSession(appId, secret, code, cb) ==
    IF TypeOf(appId) # "string" /\ TypeOf(appId) # "number"
    THEN InvalidArgument("appId", appId, <<"string", "number">>)
    ELSE IF TypeOf(code) # "string"
    THEN InvalidArgument("code", code, <<"string">>)
    ELSE IF TypeOf(secret) # "string"
    THEN InvalidArgument("secret", secret, <<"string">>)
    ELSE IF ~IsFunction(cb)
    THEN InvalidArgument("cb", cb, <<"Function">>)
    ELSE Undefined

\* the options handed to request.get
TokenRequest(appId, secret, code) ==
    [method |-> "GET",
     url |-> Endpoints.accessToken,
     qs |-> <<[k |-> <<"app_id">>, v |-> appId],
              [k |-> <<"secret">>, v |-> secret],
              [k |-> <<"code">>, v |-> code]>>]

\* a response object with its status code
Response(status) == [t |-> "response", v |-> [statusCode |-> status]]

\* one invocation of cb
Cb(err, res) == [err |-> err, res |-> res]

Session(accessToken, expires) ==
    [t |-> "session", v |-> [accessToken |-> accessToken, expires |-> expires]]

\* the status test taking only 5xx for a failure
StatusIsErrorServerOnly(status, body) == status >= 500 /\ Truthy(body)

\* the status test without its `&& body`
StatusIsErrorAnyBody(status, body) == status # 200

\* if (status !== 200 && body)
StatusIsError(status, body) == status # 200 /\ Truthy(body)

\* the default for a missing expires left out
ExpiresKept(expires) == expires

\* if (!parsedResponse.expires) parsedResponse.expires = 0
ExpiresOrZero(expires) == IF ~Truthy(expires) THEN Num(0) ELSE expires

RemoveSpaces(s) == IF s = <<>> THEN <<>> ELSE SelectSeq(s, LAMBDA c : ~IsSpace(c))

\* the "trim whitespace" statement: replace() returns a new string, which the
\* statement drops; parsedResponse.expires keeps its value
TrimStatement(expires) ==
    LET dropped == IF TypeOf(expires) = "string" THEN Str(RemoveSpaces(expires.v)) ELSE expires
    IN  expires

\* the handler from querystring.parse on, with `cb(body)` in place of
\* `return cb(body)` for a missing access_token
ParseAndDeliverNoReturn(body) ==
    LET parsedResponse == QsParse(body.v)
        access_token == Get(parsedResponse, <<"access_token">>)
        expires == ToNumber(TrimStatement(ExpiresOrZero(Get(parsedResponse, <<"expires">>))))
    IN  (IF ~Truthy(access_token) THEN <<Cb(body, Undefined)>> ELSE <<>>)
        \o <<Cb(Null, Session(access_token, expires))>>

\* the handler from querystring.parse on: the callback invocations it makes
ParseAndDeliver(body) ==
    LET parsedResponse == QsParse(body.v)
        access_token == Get(parsedResponse, <<"access_token">>)
        expires == ToNumber(TrimStatement(ExpiresOrZero(Get(parsedResponse, <<"expires">>))))
    IN  IF ~Truthy(access_token) THEN <<Cb(body, Undefined)>>
        ELSE <<Cb(Null, Session(access_token, expires))>>

\* the handler reporting a transport error as an unknown response
CreateSessionResponseWrapsErr(err, r, body) ==
    IF Truthy(err) THEN <<Cb(UnknownResponseFromDeezer(r), Undefined)>>
    ELSE IF StatusIsError(r.v.statusCode, body) THEN <<Cb(body, Undefined)>>
    ELSE IF ~Truthy(body) THEN <<Cb(UnknownResponseFromDeezer(r), Undefined)>>
    ELSE ParseAndDeliver(body)

\* createSessionResponse(err, r, body): the callback invocations it makes
CreateSessionResponse(err, r, body) ==
    IF Truthy(err) THEN <<Cb(err, Undefined)>>
    ELSE IF StatusIsError(r.v.statusCode, body) THEN <<Cb(body, Undefined)>>
    ELSE IF ~Truthy(body) THEN <<Cb(UnknownResponseFromDeezer(r), Undefined)>>
    ELSE ParseAndDeliver(body)

(* -------------------------------------------------------------- getLoginUrl *)

\* toCSV(array)
ToCSV(perms) == Str(JoinWith(perms.v, ","))

\* the default taken for an empty array as well
DefaultPermsWhenEmpty(perms) ==
    IF ~Truthy(perms) \/ perms.v = <<>> THEN Arr(<< <<"basic_access">> >>) ELSE perms

\* if (!perms) perms = ['basic_access']
DefaultPerms(perms) == IF ~Truthy(perms) THEN Arr(<< <<"basic_access">> >>) ELSE perms

\* what a synchronous call comes to: a thrown error or a returned value
Threw(e) == [threw |-> TRUE, value |-> e]
Returned(x) == [threw |-> FALSE, value |-> x]

\* getLoginUrl(appId, redirectUrl, perms)
GetLoginUrl(appId, redirectUrl, perms) ==
    IF TypeOf(appId) # "string" /\ TypeOf(appId) # "number"
    THEN Threw(InvalidArgument("appId", appId, <<"string", "number">>))
    ELSE IF TypeOf(redirectUrl) # "string"
    THEN Threw(InvalidArgument("redirectUrl", redirectUrl, <<"string">>))
    ELSE IF ~IsArray(perms) /\ TypeOf(perms) # "undefined"
    THEN Threw(InvalidArgument("perms", perms, <<"Array", "undefined">>))
    ELSE Returned(Str(<<Endpoints.userAuth, "?">> \o
            QsStringify(<<[k |-> <<"app_id">>, v |-> appId],
                          [k |-> <<"redirect_uri">>, v |-> redirectUrl],
                          [k |-> <<"perms">>, v |-> ToCSV(DefaultPerms(perms))]>>)))

(* ---------------------------------------------- checkSession, destroySession *)

\* throw <binding>.notYetSupported(operation)
ThrowNotYetSupported(binding, operation) ==
    LET unbound == Resolve(binding)
    IN  IF unbound.t = "error" THEN Threw(unbound) ELSE Threw(NotYetSupported(operation))

\* checkSession(accessToken, cb)
CheckSession(accessToken, cb) == ThrowNotYetSupported("errors", "checkSession")

\* destroySession(accessToken, cb)
DestroySession(accessToken, cb) == ThrowNotYetSupported("errors", "destroySession")

(* ------------------------------------------------------------------- inputs *)

St(c) == Str(<<c>>)

AppIds == {St("app42"), Num(42), Undefined, Null}
Secrets == {St("s3cret"), Undefined}
Codes == {St("c0de"), Num(7)}
Callbacks == {Fun(<<>>), Undefined}

RedirectUrls == {Str(<<"http", ":", "/", "/", "example.com", "/", "cb">>), Undefined}

PermNames == {"basic_access", "email", "manage_library"}

PermArrays == UNION {[1..n -> {<<p>> : p \in PermNames}] : n \in 0..MaxPerms}

PermsArgs == {Undefined, Null, St("email")} \cup {Arr(a) : a \in PermArrays}

AccessTokens == {St("tok"), Undefined}

\* field names and raw (still encoded) field values of a response body
Keys == {<<"access_token">>, <<"expires">>, <<"wrong", " ", "app", " ", "id">>}

RawValues ==
    {<<>>,
     <<"a", "b", "c", "1", "2", "3">>,
     <<"3", "6", "0", "0">>,
     <<"0">>,
     <<"-", "5">>,
     <<"+", "6", "0", "+">>,
     <<"+">>,
     <<"1", "%20", "0">>}

Segments == Keys \cup {k \o <<"=">> \o val : k \in Keys, val \in RawValues}

\* response bodies: up to MaxFields fields joined by '&'; none is the empty body
Bodies == UNION {{JoinWith(f, "&") : f \in [1..n -> Segments]} : n \in 0..MaxFields}

Statuses == {200, 400, 500}

TransportErrors == {Error("ECONNREFUSED", <<>>), Error("ETIMEDOUT", <<>>)}

Reply(err, r, body) == [err |-> err, r |-> r, body |-> body]

\* what request may hand to the handler
Responses ==
    {Reply(Null, Response(status), body) :
        status \in Statuses, body \in {Undefined} \cup {Str(b) : b \in Bodies}}
    \cup
    {Reply(err, r, body) :
        err \in TransportErrors,
        r \in {Undefined, Response(200), Response(500)},
        body \in {Undefined, Str(<<>>), Str(<<"access_token", "=", "a">>)}}

\* the responses raced against each other
RaceResponses ==
    {Reply(Null, Response(200), Str(<<"access_token", "=", "a", "&", "expires", "=", "6", "0">>)),
     Reply(Null, Response(200), Str(<<"access_token", "=", "b">>)),
     Reply(Null, Response(400), Str(<<"wrong", " ", "app", " ", "id">>)),
     Reply(Null, Response(200), Str(<<>>)),
     Reply(Error("ECONNREFUSED", <<>>), Undefined, Undefined)}

(* -------------------------------------------------------------------- state *)

VARIABLES
    pc,      \* per createSession call: "idle", "thrown", "pending" or "done"
    args,    \* per call: the arguments it was called with
    thrown,  \* per call: what the call threw, Undefined if nothing
    sent,    \* per call: the HTTP requests it issued
    resp,    \* per call: the response request handed to its handler
    cbs,     \* per call: the invocations of its cb
    sync     \* the last getLoginUrl, checkSession or destroySession call

vars == <<pc, args, thrown, sent, resp, cbs, sync>>

NoReply == Reply(Undefined, Undefined, Undefined)

Init ==
    /\ pc = [c \in Calls |-> "idle"]
    /\ args = [c \in Calls |-> <<>>]
    /\ thrown = [c \in Calls |-> Undefined]
    /\ sent = [c \in Calls |-> <<>>]
    /\ resp = [c \in Calls |-> NoReply]
    /\ cbs = [c \in Calls |-> <<>>]
    /\ sync = [op |-> "none", args |-> <<>>, out |-> Returned(Undefined)]

\* one cb kept for all calls: a handler calls the cb of the latest pending call
CallbackOfShared(c) ==
    CHOOSE d \in Calls : pc[d] = "pending" /\ \A e \in Calls : pc[e] = "pending" => e <= d

\* the cb a handler calls: the cb of the createSession call that registered it
CallbackOf(c) == c

\* call c of createSession(appId, secret, code, cb)
CreateSession(c) ==
    /\ pc[c] = "idle"
    /\ \E appId \in AppIds, secret \in Secrets, code \in Codes, cb \in Callbacks :
        LET e == ValidateSession(appId, secret, code, cb)
        IN  /\ args' = [args EXCEPT ![c] = <<appId, secret, code, cb>>]
            /\ IF e # Undefined
               THEN /\ pc' = [pc EXCEPT ![c] = "thrown"]
                    /\ thrown' = [thrown EXCEPT ![c] = e]
                    /\ sent' = sent
               ELSE /\ pc' = [pc EXCEPT ![c] = "pending"]
                    /\ thrown' = thrown
                    /\ sent' = [sent EXCEPT ![c] = Append(@, TokenRequest(appId, secret, code))]
    /\ UNCHANGED <<resp, cbs, sync>>

\* request completes call c's GET and runs createSessionResponse
Respond(c, replies) ==
    /\ pc[c] = "pending"
    /\ \E reply \in replies :
        /\ resp' = [resp EXCEPT ![c] = reply]
        /\ cbs' = [cbs EXCEPT ![CallbackOf(c)] =
                        @ \o CreateSessionResponse(reply.err, reply.r, reply.body)]
    /\ pc' = [pc EXCEPT ![c] = "done"]
    /\ UNCHANGED <<args, thrown, sent, sync>>

CallGetLoginUrl ==
    \E appId \in AppIds, redirectUrl \in RedirectUrls, perms \in PermsArgs :
        /\ sync' = [op |-> "getLoginUrl", args |-> <<appId, redirectUrl, perms>>,
                    out |-> GetLoginUrl(appId, redirectUrl, perms)]
        /\ UNCHANGED <<pc, args, thrown, sent, resp, cbs>>

CallCheckSession ==
    \E accessToken \in AccessTokens, cb \in Callbacks :
        /\ sync' = [op |-> "checkSession", args |-> <<accessToken, cb>>,
                    out |-> CheckSession(accessToken, cb)]
        /\ UNCHANGED <<pc, args, thrown, sent, resp, cbs>>

CallDestroySession ==
    \E accessToken \in AccessTokens, cb \in Callbacks :
        /\ sync' = [op |-> "destroySession", args |-> <<accessToken, cb>>,
                    out |-> DestroySession(accessToken, cb)]
        /\ UNCHANGED <<pc, args, thrown, sent, resp, cbs>>

\* createSession calls racing: any call may start, any pending reply may arrive
Next == \E c \in Calls : CreateSession(c) \/ Respond(c, RaceResponses)

Spec == Init /\ [][Next]_vars

\* one createSession call against everything request may answer
NextSession == CreateSession(1) \/ Respond(1, Responses)

SpecSession == Init /\ [][NextSession]_vars

\* the synchronous operations
NextSync == CallGetLoginUrl \/ CallCheckSession \/ CallDestroySession

SpecSync == Init /\ [][NextSync]_vars

(* ------------------------------------------------------------------- claims *)

Done(c) == pc[c] = "done"

\* call c was answered without a transport error
Answered(c) == Done(c) /\ resp[c].err = Null

StatusOf(c) == resp[c].r.v.statusCode

\* the body of c's response is a string with something in it
HasBody(c) == resp[c].body.t = "string" /\ resp[c].body.v # <<>>

ParsedField(c, name) == Get(QsParse(resp[c].body.v), <<name>>)

\* the parsed body has an access_token that is not empty (a repeated field is
\* parsed to an array of its values)
TokenPresent(c) ==
    ParsedField(c, "access_token") # Undefined /\ ParsedField(c, "access_token") # Str(<<>>)

RawBodyError(c) == Cb(resp[c].body, Undefined)

IsSessionResult(inv) == inv.err = Null /\ inv.res.t = "session"

\* C1: a createSession call that passed validation has issued exactly one HTTP
\* GET; its cb has not been invoked while the request is pending and has been
\* invoked exactly once when it has completed, whatever the response was; no
\* further request is issued.
C1_OneRequestOneCallback ==
    \A c \in Calls :
        /\ pc[c] = "pending" =>
              Len(sent[c]) = 1 /\ sent[c][1].method = "GET" /\ cbs[c] = <<>>
        /\ pc[c] = "done" =>
              Len(sent[c]) = 1 /\ sent[c][1].method = "GET" /\ Len(cbs[c]) = 1

C1_Witness ==
    \E c \in Calls :
        Answered(c) /\ StatusOf(c) = 200 /\ HasBody(c) /\ ~TokenPresent(c)
        /\ Len(sent[c]) = 1 /\ Len(cbs[c]) = 1

\* a createSession argument list with a malformed argument
Malformed(a) ==
    \/ TypeOf(a[1]) \notin {"string", "number"}
    \/ TypeOf(a[2]) # "string"
    \/ TypeOf(a[3]) # "string"
    \/ TypeOf(a[4]) # "function"

\* C2: a createSession call with any malformed argument (appId neither string
\* nor number, secret or code not a string, cb not a function) threw
\* InvalidArgument, issued no HTTP request and never had its cb invoked.
C2_MalformedThrows ==
    \A c \in Calls :
        pc[c] # "idle" /\ Malformed(args[c]) =>
            /\ pc[c] = "thrown"
            /\ thrown[c].t = "error"
            /\ thrown[c].v.code = "InvalidArgument"
            /\ sent[c] = <<>>
            /\ cbs[c] = <<>>
            /\ resp[c] = NoReply

C2_Witness ==
    \E c \in Calls :
        /\ pc[c] = "thrown"
        /\ TypeOf(args[c][1]) = "number"
        /\ TypeOf(args[c][2]) # "string"
        /\ TypeOf(args[c][3]) = "string"
        /\ TypeOf(args[c][4]) = "function"
        /\ thrown[c].v.code = "InvalidArgument"
        /\ sent[c] = <<>>

\* C3: every session result delivered to cb has an expires that is an integer
\* >= 0, whatever the expires field of the body contains.
C3_ExpiresNatural ==
    \A c \in Calls :
        \A i \in 1..Len(cbs[c]) :
            IsSessionResult(cbs[c][i]) =>
                /\ cbs[c][i].res.v.expires.t = "int"
                /\ cbs[c][i].res.v.expires.v >= 0

\* C4: checkSession and destroySession always throw NotYetSupported, issue no
\* HTTP request and invoke no callback.
C4_NotYetSupported ==
    sync.op \in {"checkSession", "destroySession"} =>
        /\ sync.out.threw
        /\ sync.out.value.t = "error"
        /\ sync.out.value.v.code = "NotYetSupported"
        /\ \A c \in Calls : sent[c] = <<>> /\ cbs[c] = <<>>

\* C5: without a transport error and with a non-empty body, cb is invoked with
\* the raw body as the error (and no result) exactly when the status is not 200
\* or the parsed body has no non-empty access_token.
C5_RawBodyError ==
    \A c \in Calls :
        Answered(c) /\ HasBody(c) =>
            /\ Len(cbs[c]) = 1
            /\ (cbs[c][1] = RawBodyError(c)) <=> (StatusOf(c) # 200 \/ ~TokenPresent(c))

C5_Witness ==
    \E c \in Calls :
        /\ Answered(c) /\ HasBody(c)
        /\ StatusOf(c) = 400
        /\ TokenPresent(c)
        /\ cbs[c] = <<RawBodyError(c)>>

\* C6: without a transport error and with an empty body, cb is invoked with an
\* UnknownResponse error carrying the response object, for every status code.
C6_EmptyBodyUnknown ==
    \A c \in Calls :
        Answered(c) /\ ~HasBody(c) =>
            /\ Len(cbs[c]) = 1
            /\ cbs[c][1].res = Undefined
            /\ cbs[c][1].err.t = "error"
            /\ cbs[c][1].err.v.code = "UnknownResponse"
            /\ cbs[c][1].err.v.info = resp[c].r

C6_Witness ==
    \E c \in Calls :
        /\ Answered(c) /\ resp[c].body = Str(<<>>)
        /\ StatusOf(c) = 400
        /\ Len(cbs[c]) = 1
        /\ cbs[c][1].err.v.code = "UnknownResponse"

\* C7: when the transport reports an error, cb is invoked with exactly that
\* error and no result, whatever status and body come with it.
C7_TransportError ==
    \A c \in Calls :
        Done(c) /\ resp[c].err # Null => cbs[c] = <<Cb(resp[c].err, Undefined)>>

C7_Witness ==
    \E c \in Calls :
        /\ Done(c) /\ resp[c].err.t = "error"
        /\ resp[c].r = Response(200)
        /\ resp[c].body = Str(<<"access_token", "=", "a">>)
        /\ cbs[c] = <<Cb(resp[c].err, Undefined)>>

\* s, white space around it aside, is a decimal literal with an optional minus
NumericLiteral(s) ==
    LET lit == TrimRight(TrimLeft(s))
    IN  AllDigits(lit) \/ (lit # <<>> /\ Head(lit) = "-" /\ AllDigits(Tail(lit)))

NumericValue(s) ==
    LET lit == TrimRight(TrimLeft(s))
    IN  IF Head(lit) = "-" THEN 0 - DecVal(Tail(lit)) ELSE DecVal(lit)

\* C8: without a transport error, with status 200 and a body whose parsed form
\* has a non-empty access_token, cb is invoked once with (null, {accessToken,
\* expires}): accessToken is the parsed access_token, expires is 0 when the
\* field is absent and the field's numeric value when it is a numeric string,
\* white space around it included.
C8_Success ==
    \A c \in Calls :
        Answered(c) /\ HasBody(c) /\ StatusOf(c) = 200 /\ TokenPresent(c) =>
            /\ Len(cbs[c]) = 1
            /\ IsSessionResult(cbs[c][1])
            /\ cbs[c][1].res.v.accessToken = ParsedField(c, "access_token")
            /\ ParsedField(c, "expires") = Undefined =>
                  cbs[c][1].res.v.expires = Num(0)
            /\ ParsedField(c, "expires").t = "string"
               /\ NumericLiteral(ParsedField(c, "expires").v) =>
                  cbs[c][1].res.v.expires = Num(NumericValue(ParsedField(c, "expires").v))

C8_Witness ==
    \E c \in Calls :
        /\ Answered(c) /\ StatusOf(c) = 200
        /\ resp[c].body = Str(<<"access_token", "=", "a", "b", "c", "1", "2", "3",
                                "&", "expires", "=", "+", "6", "0", "+">>)
        /\ cbs[c] = <<Cb(Null, Session(Str(<<"a", "b", "c", "1", "2", "3">>), Num(60)))>>

\* the query string of a URL: what follows its '?'
QueryOf(url) == SubSeq(url, IndexOf(url, "?") + 1, Len(url))

\* the perms parameter of the URL getLoginUrl returned
PermsParam == Get(QsParse(QueryOf(sync.out.value.v)), <<"perms">>)

\* C9: for valid appId and redirectUrl, getLoginUrl returns a URL whose perms
\* parameter is "basic_access" when perms is omitted, the empty string when perms
\* is an empty array, and otherwise the entries of perms joined by commas, in
\* input order and with repetitions kept.
C9_PermsParameter ==
    sync.op = "getLoginUrl"
    /\ TypeOf(sync.args[1]) \in {"string", "number"}
    /\ TypeOf(sync.args[2]) = "string"
    /\ (sync.args[3] = Undefined \/ sync.args[3].t = "array") =>
        /\ ~sync.out.threw
        /\ sync.args[3] = Undefined => PermsParam = Str(<<"basic_access">>)
        /\ sync.args[3] = Arr(<<>>) => PermsParam = Str(<<>>)
        /\ sync.args[3].t = "array" /\ sync.args[3].v # <<>> =>
              /\ PermsParam.t = "string"
              /\ Split(PermsParam.v, ",") = sync.args[3].v

C9_Witness ==
    /\ sync.op = "getLoginUrl"
    /\ sync.args[1] = Num(42)
    /\ sync.args[3] = Arr(<<>>)
    /\ ~sync.out.threw
    /\ PermsParam = Str(<<>>)

\* C10: with several createSession calls in flight and their responses arriving
\* in any order, each call's cb has been invoked exactly once when its response
\* has arrived, with what the handler makes of that call's own response, and not
\* at all before.
C10_Independent ==
    \A c \in Calls :
        /\ Done(c) =>
              /\ Len(cbs[c]) = 1
              /\ cbs[c] = CreateSessionResponse(resp[c].err, resp[c].r, resp[c].body)
        /\ ~Done(c) => cbs[c] = <<>>

C10_Witness ==
    \E c, d \in Calls :
        /\ c # d
        /\ Done(c) /\ Done(d)
        /\ cbs[c] = <<Cb(Null, Session(Str(<<"a">>), Num(60)))>>
        /\ cbs[d] = <<Cb(Null, Session(Str(<<"b">>), Num(0)))>>

====
